---- MODULE Spec2Model ----
(***************************************************************************)
(* Read path of the nebula columnar batch: the RowAccessor / ListAccessor  *)
(* cursors of memory/Batch.cpp, the type-tree constructors of type/Type.h  *)
(* and the channel pool of service/node/ConnectionPool.cpp.                *)
(*                                                                         *)
(* Row and element indices are 0-based as in the source; a column of n     *)
(* rows is a function on 0..n-1.                                           *)
(***************************************************************************)
EXTENDS Integers, Sequences, FiniteSets, TLC

\* ------------------------------------------------------------------ bounds
\* largest row count of a batch
MaxRows == 3
\* bit width of one field encoded in the packed (bess) snapshot
ValBits == 1
\* longest list value of one row of the ARRAY column
MaxListLen == 2
\* most type nodes constructed in one schema
MaxTypes == 3
\* most fields handed to one struct construction
MaxFields == 2
\* most channels created in one run of the pool
MaxChannels == 3

VARIABLES
  batch,    \* the Batch every accessor is bound to (immutable after Init)
  acc,      \* accessor id -> RowAccessor state (current_, bessValue_)
  sought,   \* accessor id -> row of its latest successful seek, or Unbound
  result,   \* the latest operation and what it returned
  types,    \* the type nodes constructed so far; a node's identity is its index
  made,     \* the latest type construction and what it returned
  connections, \* ConnectionPool::connections_: address -> channel, or NoChannel
  channels, \* connectivity state of every channel created; a channel is its index
  got       \* the latest connection(addr) call and what it returned

vars == <<batch, acc, sought, result, types, made, connections, channels, got>>
rowVars == <<batch, acc, sought, result>>
typeVars == <<types, made>>
poolVars == <<connections, channels, got>>

\* ------------------------------------------------------------------ values
Accessors == {"r1", "r2"}
\* node addresses the pool is asked for
Addrs == {"n1", "n2"}
\* connections_.find(addr) == connections_.end()
NoChannel == 0
NoCall == [addr |-> "", found |-> NoChannel, state |-> "", channel |-> NoChannel]
Unbound == -1
NoList == [offset |-> 0, count |-> 0, node |-> <<>>]

RECURSIVE Pow2(_)
Pow2(n) == IF n = 0 THEN 1 ELSE 2 * Pow2(n - 1)

Vals == 0 .. (Pow2(ValBits) - 1)

\* what an operation yields: a value, or the exception that ended it
Value(v) == [ok |-> TRUE, v |-> v, ex |-> "none"]
\* N_ENSURE(cond, msg) throws when cond is false
NebulaError(msg) == [ok |-> FALSE, v |-> 0, ex |-> msg]
\* std::unordered_map::at(key) throws std::out_of_range for a missing key
MapAtError == [ok |-> FALSE, v |-> 0, ex |-> "std::out_of_range"]

\* ------------------------------------------------------------------ DataNode
\* one column: null bit and value per row; an ARRAY column has per row an
\* (offset, count) window into its single child
ScalarNode(nulls, data) ==
  [kind |-> "INTEGER", nulls |-> nulls, data |-> data,
   os |-> <<>>, children |-> <<>>]

ArrayNode(nulls, os, child) ==
  [kind |-> "ARRAY", nulls |-> nulls, data |-> <<>>,
   os |-> os, children |-> <<child>>]

NodeIsNull(node, row) == node.nulls[row]
NodeRead(node, row) == node.data[row]
NodeOffsetSize(node, row) == node.os[row]
\* childAt<PDataNode>(i): children are numbered from 0
NodeChildAt(node, i) == node.children[i + 1]

\* ------------------------------------------------------------------ packed snapshot
\* the bit buffer is a function on bit positions 0..n-1
RECURSIVE ReadBitsFrom(_, _, _)
ReadBitsFrom(bess, start, n) ==
  IF n = 0 THEN 0
  ELSE bess[start] + 2 * ReadBitsFrom(bess, start + 1, n - 1)

\* bess_.readBits(start, n): the n bits from bit offset start, lowest bit first
readBits(bess, start, n) == ReadBitsFrom(bess, start, n)

BitOf(v, j) == (v \div Pow2(j)) % 2

\* position (from 0) of a field in the packed subset
PodIndex(podFields, field) ==
  CHOOSE i \in 0 .. (Len(podFields) - 1) : podFields[i + 1] = field

InPod(B, field) == \E i \in 1 .. Len(B.podFields) : B.podFields[i] = field

\* pod_->value(field, spaces, bessValue, v): decodes the field's bits of the
\* row window; found is false when the field is not in the packed subset
podValue(B, field, bessValue) ==
  IF InPod(B, field)
  THEN [found |-> TRUE,
        v |-> (bessValue \div Pow2(PodIndex(B.podFields, field) * ValBits))
                % Pow2(ValBits)]
  ELSE [found |-> FALSE, v |-> 0]

\* ------------------------------------------------------------------ Batch
\* the bit the ingestion writes at position p of the buffer
BessBit(fields, podFields, p) ==
  LET bits == Len(podFields) * ValBits
      row == p \div bits
      q == p % bits
      f == podFields[(q \div ValBits) + 1]
  IN BitOf(fields[f].data[row], q % ValBits)

\* a batch as ingestion publishes it: the snapshot holds, for each row, the
\* ValBits bits of every packed field, in the order of podFields
MakeBatch(rows, fields, hasPod, podFields) ==
  [rows |-> rows,
   fields |-> fields,
   pod |-> hasPod,
   podFields |-> podFields,
   bessBits |-> Len(podFields) * ValBits,
   bess |-> [p \in 0 .. (rows * Len(podFields) * ValBits - 1) |->
               BessBit(fields, podFields, p)]]

\* ------------------------------------------------------------------ fixtures
\* The batches the accessors are exercised on.  Every batch has the INTEGER
\* columns "a" and "c" and the ARRAY<INTEGER> column "b".

Rows(n) == 0 .. (n - 1)
Min(x, y) == IF x < y THEN x ELSE y

RECURSIVE SumBelow(_, _)
SumBelow(lens, r) == IF r = 0 THEN 0 ELSE lens[r - 1] + SumBelow(lens, r - 1)

NoNulls(n) == [r \in Rows(n) |-> FALSE]
NullAt(n, k) == [r \in Rows(n) |-> r = k]

\* column "c": the row number, cut to the packed width
ColumnC(n) == ScalarNode(NoNulls(n), [r \in Rows(n) |-> r % Pow2(ValBits)])

\* column "b" with the given list lengths; the child holds 1, 2, 3, ... and
\* childNull is the child row marked null (-1: none)
ColumnB(n, lens, childNull) ==
  LET total == SumBelow(lens, n)
      child == ScalarNode(NullAt(total, childNull), [k \in Rows(total) |-> k + 1])
  IN ArrayNode(NoNulls(n),
               [r \in Rows(n) |-> <<SumBelow(lens, r), lens[r]>>],
               child)

\* list lengths ..., 2, 1, 0 as in b = [[1,2],[3],[]]
ScenarioLens(n) == [r \in Rows(n) |-> Min(MaxListLen, n - 1 - r)]
ScenarioA(n) == [r \in Rows(n) |-> (r + 1) % Pow2(ValBits)]

PodChoices == { <<FALSE, <<>> >>, <<TRUE, <<"a">> >>, <<TRUE, <<"c", "a">> >> }

FieldMap(a, b, c) == [f \in {"a", "b", "c"} |->
                        IF f = "a" THEN a ELSE IF f = "b" THEN b ELSE c]

\* every value of column "a", with and without a snapshot
ValueFixtures ==
  { MakeBatch(n,
              FieldMap(ScalarNode(NoNulls(n), a),
                       ColumnB(n, ScenarioLens(n), -1), ColumnC(n)),
              pod[1], pod[2]) :
      <<n, a, pod>> \in
        UNION { { <<m, x, p>> : x \in [Rows(m) -> Vals], p \in PodChoices } :
                m \in 0 .. MaxRows } }

\* one null row in column "a"
NullFixtures ==
  { MakeBatch(n,
              FieldMap(ScalarNode(NullAt(n, k), ScenarioA(n)),
                       ColumnB(n, ScenarioLens(n), -1), ColumnC(n)),
              pod[1], pod[2]) :
      <<n, k, pod>> \in
        UNION { { <<m, j, p>> : j \in Rows(m), p \in PodChoices } :
                m \in 1 .. MaxRows } }

\* every shape of column "b"
ShapeFixtures ==
  { MakeBatch(n,
              FieldMap(ScalarNode(NoNulls(n), ScenarioA(n)),
                       ColumnB(n, lens, -1), ColumnC(n)),
              FALSE, <<>>) :
      <<n, lens>> \in
        UNION { { <<m, l>> : l \in [Rows(m) -> 0 .. MaxListLen] } :
                m \in 0 .. MaxRows } }

\* one null element in the child of column "b"
ChildNullFixtures ==
  { MakeBatch(n,
              FieldMap(ScalarNode(NoNulls(n), ScenarioA(n)),
                       ColumnB(n, ScenarioLens(n), k), ColumnC(n)),
              FALSE, <<>>) :
      <<n, k>> \in
        UNION { { <<m, j>> : j \in Rows(SumBelow(ScenarioLens(m), m)) } :
                m \in 1 .. MaxRows } }

Fixtures == ValueFixtures \cup NullFixtures \cup ShapeFixtures \cup ChildNullFixtures

\* names a caller may ask for: the three columns and one the batch lacks
FieldNames == {"a", "b", "c", "z"}
HasKind(B, field, kind) == field \in DOMAIN B.fields /\ B.fields[field].kind = kind

\* ------------------------------------------------------------------ RowAccessor
\* a RowAccessor before its first seek
NewAccessor == [current |-> 0, bessValue |-> 0]

\* seek with the bound test off by one: rowId == rows_ passes the check
seekInclusive(A, B, rowId) ==
  IF ~(rowId <= B.rows)
  THEN [acc |-> A, out |-> NebulaError("row id out of bound")]
  ELSE [acc |-> [current |-> rowId,
                 bessValue |-> IF B.pod /\ rowId < B.rows
                               THEN readBits(B.bess, rowId * B.bessBits, B.bessBits)
                               ELSE A.bessValue],
        out |-> Value(rowId)]

\* seek that repositions but never re-reads the bit window
seekKeepsWindow(A, B, rowId) ==
  IF ~(rowId < B.rows)
  THEN [acc |-> A, out |-> NebulaError("row id out of bound")]
  ELSE [acc |-> [current |-> rowId, bessValue |-> A.bessValue],
        out |-> Value(rowId)]

\* seek that assigns current_ before it checks the bound
seekAssignsFirst(A, B, rowId) ==
  IF ~(rowId < B.rows)
  THEN [acc |-> [current |-> rowId, bessValue |-> A.bessValue],
        out |-> NebulaError("row id out of bound")]
  ELSE [acc |-> [current |-> rowId,
                 bessValue |-> IF B.pod
                               THEN readBits(B.bess, rowId * B.bessBits, B.bessBits)
                               ELSE A.bessValue],
        out |-> Value(rowId)]

\* RowAccessor::seek(rowId): the accessor afterwards and what the call yields
seek(A, B, rowId) ==
  IF ~(rowId < B.rows)
  THEN [acc |-> A, out |-> NebulaError("row id out of bound")]
  ELSE [acc |-> [current |-> rowId,
                 bessValue |-> IF B.pod
                               THEN readBits(B.bess, rowId * B.bessBits, B.bessBits)
                               ELSE A.bessValue],
        out |-> Value(rowId)]

\* RowAccessor::isNull(field)
isNull(A, B, field) ==
  IF field \notin DOMAIN B.fields
  THEN NebulaError("field not found")
  ELSE Value(NodeIsNull(B.fields[field], A.current))

\* a reader that ignores the bool pod_->value returns
readIntIgnoresFound(A, B, field) ==
  IF B.pod
  THEN Value(podValue(B, field, A.bessValue).v)
  ELSE IF field \notin DOMAIN B.fields
       THEN MapAtError
       ELSE Value(NodeRead(B.fields[field], A.current))

\* READ_TYPE_BY_FIELD(int32_t, readInt): the snapshot first, then the DataNode
readInt(A, B, field) ==
  IF B.pod /\ podValue(B, field, A.bessValue).found
  THEN Value(podValue(B, field, A.bessValue).v)
  ELSE IF field \notin DOMAIN B.fields
       THEN MapAtError
       ELSE Value(NodeRead(B.fields[field], A.current))

\* readList that looks the field up with operator[] and so never throws
readListDefault(A, B, field) ==
  IF field \notin DOMAIN B.fields
  THEN Value(NoList)
  ELSE LET listNode == B.fields[field]
           child == NodeChildAt(listNode, 0)
           os == NodeOffsetSize(listNode, A.current)
       IN Value([offset |-> os[1], count |-> os[2], node |-> child])

\* RowAccessor::readList(field): a ListAccessor over the row's child window
readList(A, B, field) ==
  IF field \notin DOMAIN B.fields
  THEN MapAtError
  ELSE LET listNode == B.fields[field]
           child == NodeChildAt(listNode, 0)
           os == NodeOffsetSize(listNode, A.current)
       IN Value([offset |-> os[1], count |-> os[2], node |-> child])

\* ------------------------------------------------------------------ ListAccessor
\* ListAccessor::isNull(index)
ListIsNull(L, index) == NodeIsNull(L.node, index)

\* an entry reader that forgets the offset
ListReadIntNoOffset(L, index) == NodeRead(L.node, index)

\* READ_TYPE_BY_ENTRY(int32_t, readInt)
ListReadInt(L, index) == NodeRead(L.node, L.offset + index)


\* ------------------------------------------------------------------ TypeSystem
\* enum class Kind, without INVALID
Kinds == {"BOOLEAN", "TINYINT", "SMALLINT", "INTEGER", "BIGINT", "REAL",
          "DOUBLE", "VARCHAR", "VARBINARY", "TIMESTAMP", "ARRAY", "MAP", "STRUCT"}

\* TypeTraits<KIND>::isPrimitive
IsPrimitive(kind) == kind \in Kinds \ {"ARRAY", "MAP", "STRUCT"}

\* Type(name): a node of the kind with no children yet
TType(kind, name) == [kind |-> kind, name |-> name, children |-> <<>>]

\* Tree::addChild(child): the child is appended, and returned as added
addChild(type, child) == [type EXCEPT !.children = Append(@, child)]
\* Tree::addChildren(children...): each in argument order
addChildren(type, fields) == [type EXCEPT !.children = @ \o fields]
\* Tree::size(): the number of children
size(type) == Len(type.children)

Created(type) == [ok |-> TRUE, type |-> type]
Refused == [ok |-> FALSE, type |-> TType("INVALID", "")]

\* Type<KIND>::create(name), primitive kinds
createPrimitive(kind, name) == Created(TType(kind, name))

\* Type<ARRAY>::create(name, child)
createArray(name, child) ==
  LET type == addChild(TType("ARRAY", name), child)
      added == type.children[size(type)]
  IN IF added = child THEN Created(type) ELSE Refused

\* map construction that attaches the value before the key
createMapSwapped(name, key, value) ==
  LET type == addChild(addChild(TType("MAP", name), value), key)
  IN IF size(type) = 2 THEN Created(type) ELSE Refused

\* Type<MAP>::create(name, key, value)
createMap(name, key, value) ==
  LET type == addChild(addChild(TType("MAP", name), key), value)
  IN IF size(type) = 2 THEN Created(type) ELSE Refused

\* Type<STRUCT>::create(name, fields...)
createStruct(name, fields) ==
  LET type == addChildren(TType("STRUCT", name), fields)
  IN IF size(type) = Len(fields) THEN Created(type) ELSE Refused

\* ------------------------------------------------------------------ actions
Outcome(op, a, arg, out, list, index) ==
  [op |-> op, acc |-> a, arg |-> arg, out |-> out, list |-> list, index |-> index]

NoneMade == [op |-> "none", name |-> "", args |-> <<>>, out |-> Refused]

Idle == Outcome("none", "r1", 0, Value(0), NoList, 0)

\* one session reads a batch through accessor r1
Init ==
  /\ batch \in Fixtures
  /\ acc = [a \in Accessors |-> NewAccessor]
  /\ sought = [a \in Accessors |-> Unbound]
  /\ result = Idle
  /\ types = <<>>
  /\ made = NoneMade
  /\ connections = [addr \in Addrs |-> NoChannel]
  /\ channels = <<>>
  /\ got = NoCall

\* two sessions read the same batch, each through its own accessor
InitShared ==
  /\ batch \in NullFixtures \cup ChildNullFixtures
  /\ acc = [a \in Accessors |-> NewAccessor]
  /\ sought = [a \in Accessors |-> Unbound]
  /\ result = Idle
  /\ types = <<>>
  /\ made = NoneMade
  /\ connections = [addr \in Addrs |-> NoChannel]
  /\ channels = <<>>
  /\ got = NoCall

\* seek on a cursor kept in one place for all accessors
SeekAll(a, rowId) ==
  LET r == seek(acc[a], batch, rowId)
  IN /\ acc' = [b \in Accessors |-> r.acc]
     /\ sought' = [sought EXCEPT ![a] = IF rowId < batch.rows THEN rowId ELSE @]
     /\ result' = Outcome("seek", a, rowId, r.out, NoList, 0)
     /\ UNCHANGED <<batch, typeVars, poolVars>>

\* accessor a is asked to seek to rowId
Seek(a, rowId) ==
  LET r == seek(acc[a], batch, rowId)
  IN /\ acc' = [acc EXCEPT ![a] = r.acc]
     /\ sought' = [sought EXCEPT ![a] = IF rowId < batch.rows THEN rowId ELSE @]
     /\ result' = Outcome("seek", a, rowId, r.out, NoList, 0)
     /\ UNCHANGED <<batch, typeVars, poolVars>>

\* the accessor methods are called only after a successful seek
IsNull(a, field) ==
  /\ sought[a] # Unbound
  /\ result' = Outcome("isNull", a, field, isNull(acc[a], batch, field), NoList, 0)
  /\ UNCHANGED <<batch, acc, sought, typeVars, poolVars>>

\* a scalar reader is called on a field of its own kind, or on a missing one
ReadInt(a, field) ==
  /\ sought[a] # Unbound
  /\ field \in DOMAIN batch.fields => HasKind(batch, field, "INTEGER")
  /\ result' = Outcome("readInt", a, field, readInt(acc[a], batch, field), NoList, 0)
  /\ UNCHANGED <<batch, acc, sought, typeVars, poolVars>>

ReadList(a, field) ==
  /\ sought[a] # Unbound
  /\ field \in DOMAIN batch.fields => HasKind(batch, field, "ARRAY")
  /\ LET out == readList(acc[a], batch, field)
     IN result' = Outcome("readList", a, field, out,
                          IF out.ok THEN out.v ELSE NoList, 0)
  /\ UNCHANGED <<batch, acc, sought, typeVars, poolVars>>

\* the caller holds the ListAccessor the latest readList returned
HoldsList ==
  \/ result.op = "readList" /\ result.out.ok
  \/ result.op \in {"list.isNull", "list.readInt"}

ListNull(index) ==
  /\ HoldsList
  /\ index < result.list.count
  /\ result' = Outcome("list.isNull", result.acc, result.arg,
                       Value(ListIsNull(result.list, index)), result.list, index)
  /\ UNCHANGED <<batch, acc, sought, typeVars, poolVars>>

ListRead(index) ==
  /\ HoldsList
  /\ index < result.list.count
  /\ result' = Outcome("list.readInt", result.acc, result.arg,
                       Value(ListReadInt(result.list, index)), result.list, index)
  /\ UNCHANGED <<batch, acc, sought, typeVars, poolVars>>

\* the operations open to the sessions that own the accessors of S
Step(S) ==
  \/ \E a \in S, rowId \in 0 .. MaxRows : Seek(a, rowId)
  \/ \E a \in S, field \in FieldNames : IsNull(a, field)
  \/ \E a \in S, field \in FieldNames : ReadInt(a, field)
  \/ \E a \in S, field \in FieldNames : ReadList(a, field)
  \/ \E index \in 0 .. (MaxListLen - 1) : ListNull(index)
  \/ \E index \in 0 .. (MaxListLen - 1) : ListRead(index)

Next == Step({"r1"})
NextShared == Step(Accessors)

Spec == Init /\ [][Next]_vars
SpecShared == InitShared /\ [][NextShared]_vars

\* ------------------------------------------------------------------ schema building
TypeNames == {"x", "y"}
\* the primitive kinds schemas are built from here
LeafKinds == {"INTEGER", "VARCHAR"}
TypeIds == 1 .. Len(types)

RECURSIVE SeqsUpTo(_, _)
SeqsUpTo(S, n) ==
  IF n = 0 THEN { <<>> }
  ELSE SeqsUpTo(S, n - 1)
         \cup { Append(q, x) : q \in { p \in SeqsUpTo(S, n - 1) : Len(p) = n - 1 },
                               x \in S }

\* a construction that succeeds hands the caller a new node
Publish(op, name, args, out) ==
  /\ Len(types) < MaxTypes
  /\ made' = [op |-> op, name |-> name, args |-> args, out |-> out]
  /\ types' = IF out.ok THEN Append(types, out.type) ELSE types
  /\ UNCHANGED <<rowVars, poolVars>>

CreatePrimitive(kind, name) ==
  /\ IsPrimitive(kind)
  /\ Publish("primitive", name, <<>>, createPrimitive(kind, name))

CreateArray(name, child) ==
  Publish("array", name, <<child>>, createArray(name, child))

CreateMap(name, key, value) ==
  Publish("map", name, <<key, value>>, createMap(name, key, value))

CreateStruct(name, fields) ==
  Publish("struct", name, fields, createStruct(name, fields))

InitType ==
  /\ batch = MakeBatch(0, FieldMap(ScalarNode(NoNulls(0), ScenarioA(0)),
                                   ColumnB(0, ScenarioLens(0), -1), ColumnC(0)),
                       FALSE, <<>>)
  /\ acc = [a \in Accessors |-> NewAccessor]
  /\ sought = [a \in Accessors |-> Unbound]
  /\ result = Idle
  /\ types = <<>>
  /\ made = NoneMade
  /\ connections = [addr \in Addrs |-> NoChannel]
  /\ channels = <<>>
  /\ got = NoCall

NextType ==
  \/ \E kind \in LeafKinds, name \in TypeNames : CreatePrimitive(kind, name)
  \/ \E name \in TypeNames, child \in TypeIds : CreateArray(name, child)
  \/ \E name \in TypeNames, key \in TypeIds, value \in TypeIds :
       CreateMap(name, key, value)
  \/ \E name \in TypeNames, fields \in SeqsUpTo(TypeIds, MaxFields) :
       CreateStruct(name, fields)

SpecType == InitType /\ [][NextType]_vars

\* ------------------------------------------------------------------ claims
Known(field) == field \in DOMAIN batch.fields

\* C1: seek(rowId) succeeds exactly when rowId < rowCount; on success the
\* current row is rowId, otherwise (rowId == rowCount included) the call ends
\* with the out-of-bound error.
C1_SeekInRange ==
  result.op = "seek" =>
    /\ result.out.ok <=> result.arg < batch.rows
    /\ result.out.ok => acc[result.acc].current = result.arg
    /\ ~result.out.ok => result.out = NebulaError("row id out of bound")

C1_Witness ==
  /\ result.op = "seek"
  /\ batch.rows > 0
  /\ result.arg = batch.rows
  /\ ~result.out.ok

\* C2: after seek(rowId), a scalar read of a field returns the value recorded
\* for (field, rowId) and isNull returns the null bit recorded for
\* (field, rowId): reads follow the latest successful seek.
C2_ReadsSoughtRow ==
  /\ (result.op = "readInt" /\ Known(result.arg)) =>
       result.out = Value(batch.fields[result.arg].data[sought[result.acc]])
  /\ (result.op = "isNull" /\ Known(result.arg)) =>
       result.out = Value(batch.fields[result.arg].nulls[sought[result.acc]])

C2_Witness ==
  /\ result.op = "readInt"
  /\ result.arg = "c"
  /\ batch.pod
  /\ sought[result.acc] > 0
  /\ result.out.v # batch.fields["c"].data[0]

\* C3: for a field that is in the packed snapshot and has a DataNode, the
\* value the reader returns through the snapshot equals what the DataNode
\* holds for the current row, and so does the window of every bound accessor.
C3_PackedAgrees ==
  /\ (result.op = "readInt" /\ batch.pod /\ InPod(batch, result.arg)
        /\ Known(result.arg)) =>
       result.out = Value(NodeRead(batch.fields[result.arg],
                                   acc[result.acc].current))
  /\ \A a \in Accessors, f \in DOMAIN batch.fields :
       (sought[a] # Unbound /\ batch.pod /\ InPod(batch, f)) =>
         podValue(batch, f, acc[a].bessValue).v
           = NodeRead(batch.fields[f], acc[a].current)

C3_Witness ==
  /\ result.op = "readInt"
  /\ result.arg = "a"
  /\ batch.pod
  /\ Len(batch.podFields) = 2
  /\ sought[result.acc] > 0
  /\ result.out.v # 0

\* C4: ListAccessor.isNull(localIndex) returns the null bit of child row
\* offset + localIndex, the row the scalar readers read for that index.
C4_ListIsNullAtOffset ==
  result.op = "list.isNull" =>
    result.out = Value(NodeIsNull(result.list.node,
                                  result.list.offset + result.index))

\* C5: readList(field) after seek(r) returns a ListAccessor whose
\* (offset, count) is the field node's offsetSize(r), over the node's single
\* child, and reading local index i returns the child's value at offset + i;
\* for b = [[1,2],[3],[]] row 0 has count 2 with values 1, 2, row 2 count 0.
C5_ReadList ==
  /\ (result.op = "readList" /\ result.out.ok) =>
       LET node == batch.fields[result.arg]
       IN /\ <<result.list.offset, result.list.count>> = node.os[sought[result.acc]]
          /\ result.list.node = node.children[1]
  /\ result.op = "list.readInt" =>
       LET node == batch.fields[result.arg]
       IN result.out =
            Value(node.children[1].data[node.os[sought[result.acc]][1] + result.index])
  /\ (result.op \in {"readList", "list.readInt"} /\ result.out.ok
        /\ batch.rows = 3
        /\ \A r \in Rows(3) : batch.fields["b"].os[r][2] = 2 - r) =>
       /\ result.list.count = 2 - sought[result.acc]
       /\ (result.op = "list.readInt" /\ sought[result.acc] = 0) =>
            result.out.v = result.index + 1
       /\ (result.op = "list.readInt" /\ sought[result.acc] = 1) =>
            result.out.v = 3

C5_Witness ==
  /\ result.op = "list.readInt"
  /\ sought[result.acc] > 0
  /\ result.list.offset > 0
  /\ result.index > 0

\* C6: isNull, a scalar reader or readList on a name the batch's field map
\* lacks ends with an error and yields no value, with or without a snapshot.
C6_FieldNotFound ==
  (result.op \in {"isNull", "readInt", "readList"} /\ ~Known(result.arg)) =>
    /\ ~result.out.ok
    /\ result.out \in {NebulaError("field not found"), MapAtError}
    /\ result.list = NoList

C6_Witness ==
  /\ result.op = "readInt"
  /\ ~Known(result.arg)
  /\ batch.pod
  /\ ~result.out.ok

\* the bits [row * bessBits, (row + 1) * bessBits) of the snapshot, as a number
IsWindowOf(w, B, row) ==
  /\ w \in 0 .. (Pow2(B.bessBits) - 1)
  /\ \A j \in 0 .. (B.bessBits - 1) : BitOf(w, j) = B.bess[row * B.bessBits + j]

\* C9: with several accessors on one batch and their operations interleaved,
\* every read returns the value of the reading accessor's own latest sought
\* row; an operation on one accessor changes neither the current row, the bit
\* window nor the read results of another, and none changes the batch.
C9_AccessorsIsolated ==
  /\ [](/\ (result.op = "readInt" /\ Known(result.arg)) =>
            result.out = Value(batch.fields[result.arg].data[sought[result.acc]])
        /\ (result.op = "isNull" /\ Known(result.arg)) =>
            result.out = Value(batch.fields[result.arg].nulls[sought[result.acc]])
        /\ \A a \in Accessors : sought[a] # Unbound => acc[a].current = sought[a])
  /\ [][/\ batch' = batch
        /\ \A a \in Accessors \ {result'.acc} :
             /\ acc'[a] = acc[a]
             /\ \A f \in DOMAIN batch.fields :
                  /\ isNull(acc'[a], batch', f) = isNull(acc[a], batch, f)
                  /\ HasKind(batch, f, "INTEGER") =>
                       readInt(acc'[a], batch', f) = readInt(acc[a], batch, f)
                  /\ (HasKind(batch, f, "ARRAY") /\ sought[a] # Unbound) =>
                       readList(acc'[a], batch', f) = readList(acc[a], batch, f)]_vars

C9_Witness ==
  /\ sought["r1"] # Unbound
  /\ sought["r2"] # Unbound
  /\ sought["r1"] # sought["r2"]
  /\ result.op = "readInt"
  /\ result.acc = "r2"
  /\ batch.pod /\ InPod(batch, result.arg)
  /\ result.out.v # batch.fields[result.arg].data[sought["r1"]]

\* C10: once a seek has succeeded the accessor stays bound to the row of the
\* latest successful seek and, with a snapshot, its cached window is the
\* bessBits bits at bit offset current * bessBits; a seek that fails changes
\* neither the current row nor the window.
C10_SeekRebinds ==
  /\ [](\A a \in Accessors : sought[a] # Unbound =>
          /\ acc[a].current = sought[a]
          /\ batch.pod => IsWindowOf(acc[a].bessValue, batch, acc[a].current))
  /\ [][(result'.op = "seek" /\ ~result'.out.ok) =>
          (acc' = acc /\ sought' = sought)]_vars
  /\ [][\A a \in Accessors : sought[a] # Unbound => sought'[a] # Unbound]_vars

C10_Witness ==
  /\ result.op = "seek"
  /\ ~result.out.ok
  /\ sought[result.acc] > 0
  /\ batch.pod
  /\ acc[result.acc].bessValue # 0

WithKind(kind) == { t \in TypeIds : types[t].kind = kind }

\* C7: every node a construction returns has the arity of its kind: none for
\* a primitive, for ARRAY the one element type supplied (the same node), for
\* MAP the key then the value, for STRUCT the supplied fields in order; a
\* construction whose child count differs returns no node.
C7_Arity ==
  /\ \A t \in TypeIds :
       /\ IsPrimitive(types[t].kind) => Len(types[t].children) = 0
       /\ types[t].kind = "ARRAY" => Len(types[t].children) = 1
       /\ types[t].kind = "MAP" => Len(types[t].children) = 2
       /\ types[t].kind \in Kinds
  /\ (made.op # "none" /\ made.out.ok) =>
       /\ types[Len(types)] = made.out.type
       /\ made.out.type.children = made.args
       /\ made.out.type.name = made.name
       /\ made.op = "array" => made.out.type.kind = "ARRAY"
       /\ made.op = "map" =>
            made.out.type.kind = "MAP"
              /\ made.out.type.children = <<made.args[1], made.args[2]>>
       /\ made.op = "struct" =>
            made.out.type.kind = "STRUCT"
              /\ Len(made.out.type.children) = Len(made.args)
       /\ made.op = "primitive" => IsPrimitive(made.out.type.kind)

C7_Witness ==
  /\ made.op = "map"
  /\ made.out.ok
  /\ made.args[1] # made.args[2]
  /\ WithKind("ARRAY") # {}

\* C8: the children of every STRUCT node createStruct produces have pairwise
\* distinct names.
C8_StructNamesDistinct ==
  \A t \in WithKind("STRUCT") :
    \A i, j \in 1 .. Len(types[t].children) :
      i # j => types[types[t].children[i]].name # types[types[t].children[j]].name

\* ------------------------------------------------------------------ ConnectionPool
\* grpc_connectivity_state
ChannelStates == {"IDLE", "CONNECTING", "READY", "TRANSIENT_FAILURE", "SHUTDOWN"}

\* channel->GetState(true): the state now; an idle channel starts to connect
GetState(chans, channel) ==
  [state |-> chans[channel],
   chans |-> IF chans[channel] = "IDLE"
             THEN [chans EXCEPT ![channel] = "CONNECTING"]
             ELSE chans]

\* grpc::CreateCustomChannel(addr, ...): a new channel, idle
CreateCustomChannel(chans) ==
  [channel |-> Len(chans) + 1, chans |-> Append(chans, "IDLE")]

\* connection(addr) that hands out the stored channel without looking at its state
connectionNoStateCheck(conns, chans, addr) ==
  LET located == conns[addr]
  IN IF located # NoChannel
     THEN [conns |-> conns, chans |-> GetState(chans, located).chans,
           channel |-> located]
     ELSE LET made1 == CreateCustomChannel(chans)
          IN [conns |-> [conns EXCEPT ![addr] = made1.channel],
              chans |-> made1.chans, channel |-> made1.channel]

\* ConnectionPool::connection(addr): the map, the channels and the channel returned
connection(conns, chans, addr) ==
  LET located == conns[addr]
      seen == GetState(chans, located)
  IN IF located # NoChannel /\ seen.state # "SHUTDOWN"
     THEN [conns |-> conns, chans |-> seen.chans, channel |-> located]
     ELSE LET made1 == CreateCustomChannel(chans)
          IN [conns |-> [conns EXCEPT ![addr] = made1.channel],
              chans |-> made1.chans, channel |-> made1.channel]

\* a caller asks the pool for the channel to addr
Connection(addr) ==
  LET r == connection(connections, channels, addr)
  IN /\ Len(r.chans) <= MaxChannels
     /\ connections' = r.conns
     /\ channels' = r.chans
     /\ got' = [addr |-> addr,
                found |-> connections[addr],
                state |-> IF connections[addr] = NoChannel THEN ""
                          ELSE channels[connections[addr]],
                channel |-> r.channel]
     /\ UNCHANGED <<rowVars, typeVars>>

\* the network moves a live channel to another state; SHUTDOWN is final
ChannelChanges(channel, state) ==
  /\ channel \in 1 .. Len(channels)
  /\ channels[channel] # "SHUTDOWN"
  /\ channels[channel] # state
  /\ channels' = [channels EXCEPT ![channel] = state]
  /\ UNCHANGED <<rowVars, typeVars, connections, got>>

InitPool ==
  /\ batch = MakeBatch(0, FieldMap(ScalarNode(NoNulls(0), ScenarioA(0)),
                                   ColumnB(0, ScenarioLens(0), -1), ColumnC(0)),
                       FALSE, <<>>)
  /\ acc = [a \in Accessors |-> NewAccessor]
  /\ sought = [a \in Accessors |-> Unbound]
  /\ result = Idle
  /\ types = <<>>
  /\ made = NoneMade
  /\ connections = [addr \in Addrs |-> NoChannel]
  /\ channels = <<>>
  /\ got = NoCall

NextPool ==
  \/ \E addr \in Addrs : Connection(addr)
  \/ \E channel \in 1 .. MaxChannels, state \in ChannelStates :
       ChannelChanges(channel, state)

SpecPool == InitPool /\ [][NextPool]_vars

\* C11: over sequential connection(addr) calls the pool holds at most one
\* channel per address; a call returns the channel stored for addr when there
\* is one and it is not SHUTDOWN, and otherwise creates a channel, stores it
\* for addr in place of the old one and returns it; the channels stored for
\* the other addresses stay as they were.
C11_PooledChannel ==
  /\ [](got # NoCall =>
          /\ connections[got.addr] = got.channel
          /\ (got.found # NoChannel /\ got.state # "SHUTDOWN") =>
               got.channel = got.found
          /\ (got.found = NoChannel \/ got.state = "SHUTDOWN") =>
               /\ got.channel # got.found
               /\ got.channel \in 1 .. Len(channels)
               /\ \A addr \in Addrs \ {got.addr} : connections[addr] # got.channel)
  /\ [][got' # got =>
          /\ \A addr \in Addrs \ {got'.addr} : connections'[addr] = connections[addr]
          /\ ((got'.found # NoChannel /\ got'.state # "SHUTDOWN") <=>
                Len(channels') = Len(channels))
          /\ Len(channels') \in {Len(channels), Len(channels) + 1}
          /\ got'.channel = Len(channels) + 1 \/ got'.channel = connections[got'.addr]]_vars
  /\ [][got' = got => connections' = connections]_vars

C11_Witness ==
  /\ got # NoCall
  /\ got.found # NoChannel
  /\ got.state = "SHUTDOWN"
  /\ got.channel # got.found
  /\ \E addr \in Addrs \ {got.addr} :
       connections[addr] # NoChannel /\ channels[connections[addr]] = "SHUTDOWN"

====
